---- MODULE Spec2Model ----
(***************************************************************************)
(* Model of template_data_fetch_script.py: one run of the script is one    *)
(* poll cycle over server_data.  The SQLite database outlives the run, the *)
(* module-level variables (row_id, client, registers, value) do not.       *)
(***************************************************************************)
EXTENDS Integers, Sequences, FiniteSets, TLC

\* ------------------------------------------------------------------------
\* Bounds
\* ------------------------------------------------------------------------

\* number of runs of the script (poll cycles) explored
MaxCycles == 2
\* largest reading of datetime.now() explored; the clock stalls there
MaxClock == 2
\* number of answers other than a plain number that the servers and the
\* database give over the runs explored: a refused connection, an error
\* response, a closed connection, a NaN reading, a storage error
MaxFaults == 2
\* number of registers of each server of server_data that are kept
MaxRegs == 2

\* ------------------------------------------------------------------------
\* Server information (lines 45-110)
\* ------------------------------------------------------------------------

all_server_data ==
  << [name |-> "Inverter",
      registers |->
        << [name |-> "AC_power",         count |-> 2, dtype |-> "float32", conv |-> "none"],
           [name |-> "Total_AC_current", count |-> 2, dtype |-> "float32", conv |-> "none"],
           [name |-> "Phase_voltage_AN", count |-> 2, dtype |-> "float32", conv |-> "none"] >>],
     [name |-> "Power_meter",
      registers |->
        << [name |-> "System_current",            count |-> 2, dtype |-> "uint32", conv |-> "div1000"],
           [name |-> "System_Ph_N_voltage",       count |-> 2, dtype |-> "uint32", conv |-> "div100"],
           [name |-> "System_total_active_power", count |-> 2, dtype |-> "int32",  conv |-> "none"] >>] >>

\* the configuration the run iterates over: every server, its first MaxRegs registers
server_data ==
  [s \in 1..Len(all_server_data) |->
     [name |-> all_server_data[s].name,
      registers |->
        LET all == all_server_data[s].registers
        IN  SubSeq(all, 1, IF MaxRegs <= Len(all) THEN MaxRegs ELSE Len(all))]]

Servers == 1..Len(server_data)
NRegs(s) == Len(server_data[s].registers)
Regs(s) == 1..NRegs(s)

\* ------------------------------------------------------------------------
\* Values
\* ------------------------------------------------------------------------

\* SQL NULL / Python None in a register column
NULL == [kind |-> "null", n |-> 0, d |-> 1]
\* the rational n/d
Num(n, d) == [kind |-> "num", n |-> n, d |-> d]
NaN == [kind |-> "nan", n |-> 0, d |-> 1]
Inf(sign) == [kind |-> "inf", n |-> sign, d |-> 1]
\* NULL timestamp; readings of datetime.now() are >= 1
NoTime == 0

RECURSIVE Pow2(_)
Pow2(k) == IF k = 0 THEN 1 ELSE 2 * Pow2(k - 1)

\* n/d with the common factors of two removed (d is a power of two)
RECURSIVE Reduce2(_, _)
Reduce2(n, d) == IF d > 1 /\ n % 2 = 0 THEN Reduce2(n \div 2, d \div 2) ELSE Num(n, d)

\* Decoder.decode_32bit_uint on two big-endian words
decode_32bit_uint(w) == Num(w[1] * 65536 + w[2], 1)

\* Decoder.decode_32bit_int on two big-endian words (two's complement)
decode_32bit_int(w) ==
  IF w[1] >= 32768 THEN Num((w[1] - 65536) * 65536 + w[2], 1)
                   ELSE Num(w[1] * 65536 + w[2], 1)

\* Decoder.decode_32bit_float on two big-endian words (IEEE-754 single)
decode_32bit_float(w) ==
  LET sign == IF w[1] >= 32768 THEN -1 ELSE 1
      e    == (w[1] % 32768) \div 128
      m    == (w[1] % 128) * 65536 + w[2]
  IN  IF e = 255 THEN (IF m = 0 THEN Inf(sign) ELSE NaN)
      ELSE IF e = 0 THEN (IF m = 0 THEN Num(0, 1) ELSE Reduce2(sign * m, Pow2(149)))
      ELSE IF e >= 150 THEN Num(sign * (8388608 + m) * Pow2(e - 150), 1)
      ELSE Reduce2(sign * (8388608 + m), Pow2(150 - e))

\* lines 245-251: the decoding method is chosen by the register's data type;
\* the decoder reads the first four bytes of the payload built from the words
Decode(dtype, w) ==
  CASE dtype = "float32" -> decode_32bit_float(w)
    [] dtype = "uint32"  -> decode_32bit_uint(w)
    [] dtype = "int32"   -> decode_32bit_int(w)

\* lines 256-257: the register's conversion function, if it has one
Convert(conv, v) ==
  IF conv = "none" \/ v.kind # "num" THEN v
  ELSE IF conv = "div1000" THEN Num(v.n, v.d * 1000)
  ELSE Num(v.n, v.d * 100)

\* nearest integer to n/d, ties to even (d > 0)
RoundHalfEven(n, d) ==
  LET q == n \div d
      r == n % d
  IN  IF 2 * r < d THEN q
      ELSE IF 2 * r > d THEN q + 1
      ELSE IF q % 2 = 0 THEN q ELSE q + 1

\* line 258: round(value, 3); the result is a number of thousandths
round3(v) ==
  IF v.kind # "num" THEN v
  ELSE LET q == v.n \div v.d
           r == v.n % v.d
       IN  Num(q * 1000 + RoundHalfEven(r * 1000, v.d), 1000)

\* what SQLite keeps of a bound parameter: a NaN REAL is stored as NULL
Stored(v) == IF v.kind = "nan" THEN NULL ELSE v

\* ------------------------------------------------------------------------
\* Inputs: what the Modbus servers and the clock can answer
\* ------------------------------------------------------------------------

\* words a successful read of a register of the given data type may return:
\* two words, or an answer of one word or of three words
RawWords(dtype) ==
  CASE dtype = "float32" -> { <<17595, 32768>>,   \* 0x44BB8000 = 1500.0
                              <<32704, 0>>,       \* 0x7FC00000 = NaN
                              <<17595>>, <<17595, 32768, 0>> }
    [] dtype = "uint32"  -> { <<0, 4500>>, <<0>>, <<0, 4500, 7>> }
    [] dtype = "int32"   -> { <<65535, 65535>>,   \* -1
                              <<65535>>, <<65535, 65535, 7>> }

\* the decoder runs out of bytes: struct.error in decode_32bit_*
DecodeFails(w) == Len(w) < 2

\* 1 if the words w of a register of the given data type are not the two
\* words of a number
Odd(dtype, w) ==
  IF Len(w) # 2 THEN 1
  ELSE IF Decode(dtype, w).kind = "nan" THEN 1 ELSE 0

\* the failures of client.read_holding_registers(): a response with
\* isError(), or ConnectionException
ReadFailures == {"error", "closed"}

\* ------------------------------------------------------------------------
\* State
\* ------------------------------------------------------------------------

VARIABLES
  pc,        \* position of the script
  cycle,     \* number of runs started
  srv,       \* index in server_data of the loop variable `server` (0: none yet)
  reg,       \* index of the loop variable `register` (0: none)
  tables,    \* the database: server index -> sequence of rows
  row_id,    \* module-level row_id (0: not yet bound)
  client,    \* number of Client objects created in this run; the current one
  registers, \* module-level `registers`: words of the last successful read
  now,       \* last reading of datetime.now()
  out,       \* lines printed during the current server's turn
  faults,    \* number of faulty answers and stop requests so far (see MaxFaults)
  events     \* storage and network operations of the current server's turn

vars == <<pc, cycle, srv, reg, tables, row_id, client, registers, now, out, faults, events>>

NoWords == <<>>

\* lines 145-149: one None for the timestamp, one per register
null_tuple(s) == [timestamp |-> NoTime, cols |-> [r \in Regs(s) |-> NULL]]

\* a row id that is not fresh: the id of the newest row again
NextRowId_Reuse(t) == IF t = <<>> THEN 1 ELSE t[Len(t)].id

\* INTEGER PRIMARY KEY: the largest rowid of the table plus one
NextRowId(t) == IF t = <<>> THEN 1 ELSE t[Len(t)].id + 1

\* index in table t of the row WHERE id = rid (0: no such row)
RowIndex(t, rid) ==
  IF \E i \in 1..Len(t) : t[i].id = rid
  THEN CHOOSE i \in 1..Len(t) : t[i].id = rid
  ELSE 0

\* the row replaced by a fresh one that holds only the timestamp
SetTimestamp_Replace(tb, s, rid, ts) ==
  [tb EXCEPT ![s] = [i \in 1..Len(tb[s]) |->
     IF tb[s][i].id = rid
     THEN [id |-> rid, timestamp |-> ts, cols |-> [r \in Regs(s) |-> NULL]]
     ELSE tb[s][i]]]

\* UPDATE <server> SET timestamp = ts WHERE id = rid
SetTimestamp(tb, s, rid, ts) ==
  [tb EXCEPT ![s] = [i \in 1..Len(tb[s]) |->
     IF tb[s][i].id = rid THEN [tb[s][i] EXCEPT !.timestamp = ts] ELSE tb[s][i]]]

\* UPDATE <server> SET <register> = v WHERE id = rid
SetColumn(tb, s, rid, r, v) ==
  [tb EXCEPT ![s] = [i \in 1..Len(tb[s]) |->
     IF tb[s][i].id = rid THEN [tb[s][i] EXCEPT !.cols[r] = Stored(v)] ELSE tb[s][i]]]

\* readings datetime.now() can give after the reading `now`
ClockReadings == { t \in now..(now + 1) : t <= MaxClock }

\* one storage or network operation: what, on which register (0: none),
\* through which Client object (0: none), with which result
Ev(op, r, c, res) == [op |-> op, reg |-> r, client |-> c, res |-> res]

\* one printed line: its kind, the server and the register (0: none) it names,
\* the value it shows
Line(kind, s, r, v) == [kind |-> kind, server |-> s, reg |-> r, value |-> v]

Init ==
  /\ pc = "idle"
  /\ cycle = 0
  /\ srv = 0
  /\ reg = 0
  /\ tables = [s \in Servers |-> <<>>]
  /\ row_id = 0
  /\ client = 0
  /\ registers = NoWords
  /\ now = 1
  /\ out = <<>>
  /\ faults = 0
  /\ events = <<>>

\* update_timestamp with the UPDATE never executed
update_timestamp_NoWrite(tb, s, rid, t) == tb

\* update_timestamp with the WHERE clause left out: every row of the table
update_timestamp_AllRows(tb, s, rid, t) ==
  [tb EXCEPT ![s] = [i \in 1..Len(tb[s]) |-> [tb[s][i] EXCEPT !.timestamp = t]]]

\* lines 153-157, update_timestamp(server): the table is the server's, the
\* row is the one the module-level row_id names
update_timestamp(tb, s, rid, t) == SetTimestamp(tb, s, rid, t)

\* a storage failure that is swallowed and the operation tried again
Raise_Retry(done, op, used) ==
  /\ used < MaxFaults
  /\ faults' = used + 1
  /\ pc' = pc
  /\ events' = Append(done, Ev(op, 0, 0, "dberror"))

\* an sqlite3 exception in cursor.execute / conn.commit during the storage
\* operation op: nothing catches it, the run ends with the traceback
\* (`done`: the events of the turn so far, `used`: the faults so far)
Raise(done, op, used) ==
  /\ used < MaxFaults
  /\ faults' = used + 1
  /\ pc' = "crashed"
  /\ events' = Append(done, Ev(op, 0, 0, "dberror"))

\* a register loop whose end leads straight to client.close()
NextRegister_NoFinalStamp ==
  IF reg < NRegs(srv)
  THEN /\ reg' = reg + 1
       /\ pc' = "read"
  ELSE /\ reg' = 0
       /\ pc' = "close"

\* `continue` in, or the end of the body of, the register loop (line 220)
NextRegister ==
  IF reg < NRegs(srv)
  THEN /\ reg' = reg + 1
       /\ pc' = "read"
  ELSE /\ reg' = 0
       /\ pc' = "timestamp"

\* the events `events` followed by the event e, if there is one (<<>>: none)
After(e) == IF e = <<>> THEN events ELSE Append(events, e)

\* a call of update_timestamp(server), made after the event e and `used`
\* faults, and followed by the continuation `target`
CallUpdateTimestamp(e, used, target) ==
  \/ \E t \in ClockReadings :
        /\ now' = t
        /\ tables' = update_timestamp(tables, srv, row_id, t)
        /\ events' = Append(After(e), Ev("timestamp", 0, 0, "ok"))
        /\ faults' = used
        /\ target
  \/ /\ Raise(After(e), "timestamp", used)
     /\ UNCHANGED <<now, tables, reg>>

\* lines 176-181: a run of the script starts; the tables exist from then on
StartCycle ==
  /\ pc \in {"idle", "done"}
  /\ cycle < MaxCycles
  /\ cycle' = cycle + 1
  /\ pc' = "for_server"
  /\ srv' = 0
  /\ reg' = 0
  /\ row_id' = 0
  /\ client' = 0
  /\ registers' = NoWords
  /\ out' = <<>>
  /\ events' = <<>>
  /\ UNCHANGED <<tables, now, faults>>

\* a server loop that goes straight to the last server of the list
ForServer_Skip ==
  /\ pc = "for_server"
  /\ IF srv < Len(server_data)
     THEN /\ srv' = Len(server_data)
          /\ pc' = "insert"
          /\ out' = <<>>
          /\ events' = <<>>
     ELSE /\ pc' = "done"
          /\ UNCHANGED <<srv, out, events>>
  /\ UNCHANGED <<cycle, reg, tables, row_id, client, registers, now, faults>>

\* line 191: the server loop takes the next server, or the run ends
ForServer ==
  /\ pc = "for_server"
  /\ IF srv < Len(server_data)
     THEN /\ srv' = srv + 1
          /\ pc' = "insert"
          /\ out' = <<>>
          /\ events' = <<>>
     ELSE /\ pc' = "done"
          /\ UNCHANGED <<srv, out, events>>
  /\ UNCHANGED <<cycle, reg, tables, row_id, client, registers, now, faults>>

\* the connection is attempted without the null row having been inserted
InsertRow_Deferred ==
  /\ pc = "insert"
  /\ pc' = "connect"
  /\ UNCHANGED <<cycle, srv, reg, tables, row_id, client, registers, now, out,
                 faults, events>>

\* lines 194-200: insert the null row, commit, remember its id
InsertRow ==
  /\ pc = "insert"
  /\ \/ LET rid == NextRowId(tables[srv])
        IN  /\ tables' = [tables EXCEPT ![srv] =
                            Append(@, [id |-> rid] @@ null_tuple(srv))]
            /\ row_id' = rid
            /\ events' = Append(events, Ev("insert", 0, 0, "ok"))
            /\ pc' = "connect"
            /\ UNCHANGED faults
     \/ /\ Raise(events, "insert", faults)
        /\ UNCHANGED <<tables, row_id>>
  /\ UNCHANGED <<cycle, srv, reg, client, registers, now, out>>

\* the handler of a failed connection without its `continue`: the register
\* loop is entered all the same
ConnectFailure_NoContinue ==
  /\ faults < MaxFaults
  /\ out' = Append(out, Line("connect_error", srv, 0, NULL))
  /\ CallUpdateTimestamp(Ev("connect", 0, client + 1, "fail"), faults + 1,
                         /\ reg' = IF NRegs(srv) > 0 THEN 1 ELSE 0
                         /\ pc' = IF NRegs(srv) > 0 THEN "read" ELSE "timestamp")

\* lines 212-217: connect() returned False or raised ConnectionException;
\* print the error, stamp the row, continue with the next server
ConnectFailure ==
  /\ faults < MaxFaults
  /\ out' = Append(out, Line("connect_error", srv, 0, NULL))
  /\ CallUpdateTimestamp(Ev("connect", 0, client + 1, "fail"), faults + 1,
                         pc' = "for_server" /\ UNCHANGED reg)

\* lines 204-217: a new Client; connect() succeeds, or fails and the handler
\* prints, stamps the row and continues with the next server
Connect ==
  /\ pc = "connect"
  /\ client' = client + 1
  /\ \/ /\ events' = Append(events, Ev("connect", 0, client + 1, "ok"))
        /\ reg' = IF NRegs(srv) > 0 THEN 1 ELSE 0
        /\ pc' = IF NRegs(srv) > 0 THEN "read" ELSE "timestamp"
        /\ UNCHANGED <<tables, now, out, faults>>
     \/ ConnectFailure
  /\ UNCHANGED <<cycle, srv, row_id, registers>>

\* the handler of a failed read without its update_timestamp call
ReadFailure_NoStamp(f) ==
  /\ faults < MaxFaults
  /\ faults' = faults + 1
  /\ out' = Append(out, Line(f, srv, reg, NULL))
  /\ events' = Append(events, Ev("read", reg, client, f))
  /\ NextRegister
  /\ UNCHANGED <<tables, now>>

\* the handler of a failed read that prints nothing for a closed connection
ReadFailure_Silent(f) ==
  /\ faults < MaxFaults
  /\ out' = IF f = "closed" THEN out ELSE Append(out, Line(f, srv, reg, NULL))
  /\ CallUpdateTimestamp(Ev("read", reg, client, f), faults + 1, NextRegister)

\* the handler of a failed read that leaves the register loop (`break`) when
\* the connection was closed
ReadFailure_Break(f) ==
  /\ faults < MaxFaults
  /\ out' = Append(out, Line(f, srv, reg, NULL))
  /\ CallUpdateTimestamp(Ev("read", reg, client, f), faults + 1,
                         IF f = "closed"
                         THEN reg' = 0 /\ pc' = "timestamp"
                         ELSE NextRegister)

\* the handler of a failed read that gives up the whole run
ReadFailure_Abort(f) ==
  /\ faults < MaxFaults
  /\ faults' = faults + 1
  /\ out' = Append(out, Line(f, srv, reg, NULL))
  /\ events' = Append(events, Ev("read", reg, client, f))
  /\ pc' = "crashed"
  /\ UNCHANGED <<tables, now, reg>>

\* lines 230-233 and 236-239: the response is an error, or the read raised
\* ConnectionException; print the error, stamp the row, continue with the
\* next register
\* the handler without its `continue`: the script goes on to decode the
\* words the variable `registers` still holds
ReadFailure_FallsThrough(f) ==
  /\ faults < MaxFaults
  /\ out' = Append(out, Line(f, srv, reg, NULL))
  /\ CallUpdateTimestamp(Ev("read", reg, client, f), faults + 1,
                         pc' = "decode" /\ UNCHANGED reg)

ReadFailure(f) ==
  /\ faults < MaxFaults
  /\ out' = Append(out, Line(f, srv, reg, NULL))
  /\ CallUpdateTimestamp(Ev("read", reg, client, f), faults + 1, NextRegister)

\* lines 227-239: read the register; an error response or a ConnectionException
\* is printed, the row is stamped and the loop continues with the next register
ReadRegister ==
  /\ pc = "read"
  /\ \/ \E w \in RawWords(server_data[srv].registers[reg].dtype) :
           /\ faults + Odd(server_data[srv].registers[reg].dtype, w) <= MaxFaults
           /\ faults' = faults + Odd(server_data[srv].registers[reg].dtype, w)
           /\ registers' = w
           /\ events' = Append(events, Ev("read", reg, client, "ok"))
           /\ pc' = "decode"
           /\ UNCHANGED <<reg, tables, now, out>>
     \/ \E f \in ReadFailures :
           /\ ReadFailure(f)
           /\ UNCHANGED registers
  /\ UNCHANGED <<cycle, srv, row_id, client>>

\* lines 245-258: decode the words, convert, round to 3 decimal places
Value(s, r, w) ==
  round3(Convert(server_data[s].registers[r].conv,
                 Decode(server_data[s].registers[r].dtype, w)))

\* the value is stored and the row stamped after every value
DecodeAndStore_Stamps ==
  /\ pc = "decode"
  /\ ~DecodeFails(registers)
  /\ LET value == Value(srv, reg, registers)
     IN  /\ out' = Append(out, Line("value", srv, reg, value))
         /\ \E t \in ClockReadings :
              /\ now' = t
              /\ tables' = update_timestamp(SetColumn(tables, srv, row_id, reg, value),
                                            srv, row_id, t)
              /\ events' = Append(Append(events, Ev("patch", reg, 0, "ok")),
                                  Ev("timestamp", 0, 0, "ok"))
              /\ NextRegister
  /\ UNCHANGED <<cycle, srv, row_id, client, registers, faults>>

\* lines 245-251 when the decoder runs out of bytes: struct.error, which
\* nothing catches; the run ends before anything is printed or stored
DecodeError ==
  /\ DecodeFails(registers)
  /\ pc' = "crashed"
  /\ events' = Append(events, Ev("decode", reg, 0, "error"))
  /\ UNCHANGED <<out, tables, reg, faults>>

\* lines 242-269: decode, convert, round, print the value, store it in the row
DecodeAndStore ==
  /\ pc = "decode"
  /\ \/ DecodeError
     \/ /\ ~DecodeFails(registers)
        /\ LET value == Value(srv, reg, registers)
           IN  /\ out' = Append(out, Line("value", srv, reg, value))
               /\ \/ /\ tables' = SetColumn(tables, srv, row_id, reg, value)
                     /\ events' = Append(events, Ev("patch", reg, 0, "ok"))
                     /\ NextRegister
                     /\ UNCHANGED faults
                  \/ /\ Raise(events, "patch", faults)
                     /\ UNCHANGED <<tables, reg>>
  /\ UNCHANGED <<cycle, srv, row_id, client, registers, now>>

\* the register loop is left without the final call of update_timestamp
FinalTimestamp_Skipped ==
  /\ pc = "timestamp"
  /\ pc' = "close"
  /\ UNCHANGED <<cycle, srv, reg, tables, row_id, client, registers, now, out,
                 faults, events>>

\* lines 272-273: the timestamp after the register loop
FinalTimestamp ==
  /\ pc = "timestamp"
  /\ CallUpdateTimestamp(<<>>, faults, pc' = "close" /\ UNCHANGED reg)
  /\ UNCHANGED <<cycle, srv, row_id, client, registers, out>>

\* line 277: client.close(), the end of the server's turn
Close ==
  /\ pc = "close"
  /\ events' = Append(events, Ev("close", 0, client, "ok"))
  /\ pc' = "for_server"
  /\ UNCHANGED <<cycle, srv, reg, tables, row_id, client, registers, now, out, faults>>

\* the process is asked to stop while a run is under way (SIGINT raises
\* KeyboardInterrupt, which no except clause of the script catches; SIGTERM
\* has its default disposition): the run ends where it is, and what was
\* committed stays as it is
StopRequest ==
  /\ pc \in {"for_server", "insert", "connect", "read", "decode", "timestamp", "close"}
  /\ faults < MaxFaults
  /\ faults' = faults + 1
  /\ pc' = "stopped"
  /\ UNCHANGED <<cycle, srv, reg, tables, row_id, client, registers, now, out, events>>

Next ==
  \/ StartCycle
  \/ ForServer
  \/ InsertRow
  \/ Connect
  \/ ReadRegister
  \/ DecodeAndStore
  \/ FinalTimestamp
  \/ Close
  \/ StopRequest

Spec == Init /\ [][Next]_vars

\* the steps of a started run: the interpreter executes the script's next
\* statement, and every connect and read call returns
RunStep ==
  \/ ForServer
  \/ InsertRow
  \/ Connect
  \/ ReadRegister
  \/ DecodeAndStore
  \/ FinalTimestamp
  \/ Close

\* lines 176-181 on a fresh database: the first run of the script starts
FirstRun == StartCycle /\ cycle = 0

OneRunNext ==
  \/ FirstRun
  \/ ForServer
  \/ InsertRow
  \/ Connect
  \/ ReadRegister
  \/ DecodeAndStore
  \/ FinalTimestamp
  \/ Close

\* one run of the script on a fresh database: once started, the run keeps
\* executing (every statement, connect and read call returns)
OneRunSpec == Init /\ [][OneRunNext]_vars /\ WF_vars(RunStep)

\* ------------------------------------------------------------------------
\* Vocabulary of the properties
\* ------------------------------------------------------------------------

\* the row the module-level row_id names in the current server's table
CurRow == tables[srv][RowIndex(tables[srv], row_id)]

\* positions of the events of the current turn with the given operation and result
EventsOf(op, results) ==
  { i \in 1..Len(events) : events[i].op = op /\ events[i].res \in results }

\* the read of register r in the current turn succeeded / failed / was issued
ReadOk(r) == \E i \in EventsOf("read", {"ok"}) : events[i].reg = r
ReadFailed(r) == \E i \in EventsOf("read", ReadFailures) : events[i].reg = r
ReadIssued(r) == ReadOk(r) \/ ReadFailed(r)

ConnectFailed == EventsOf("connect", {"fail"}) # {}
Connected == EventsOf("connect", {"ok"}) # {}

\* successful timestamp writes of the current turn
TimestampWrites == EventsOf("timestamp", {"ok"})

\* the turn of server srv is over: the script is back at the head of the
\* server loop, or past it
TurnEnded == srv > 0 /\ pc \in {"for_server", "done"}

\* the error lines / value lines printed in the current turn
ErrorLines == { i \in 1..Len(out) : out[i].kind # "value" }
ValueLines == { i \in 1..Len(out) : out[i].kind = "value" }

\* ------------------------------------------------------------------------
\* C1
\* ------------------------------------------------------------------------

\* C1: when a run of the script completes, every server's table holds exactly
\* one row per run made so far (one new row per cycle and server), and no row
\* has a null timestamp, whatever connection and register failures occurred.
C1_OneStampedRowPerCycle ==
  pc = "done" =>
    \A s \in Servers :
      /\ Len(tables[s]) = cycle
      /\ \A i \in 1..Len(tables[s]) : tables[s][i].timestamp # NoTime

\* a second run completed; its first server could not be reached, its last
\* server had a failing register read
C1_Witness ==
  /\ pc = "done"
  /\ cycle = 2
  /\ \A r \in Regs(1) : tables[1][2].cols[r] = NULL
  /\ \E r \in Regs(srv) : ReadFailed(r)

\* ------------------------------------------------------------------------
\* C2
\* ------------------------------------------------------------------------

\* C2: at the end of the turn of a server whose connection succeeded, every
\* register was read, and a column of the record is non-null if and only if
\* the read of that register succeeded.
C2_ColumnIffReadSucceeded ==
  (TurnEnded /\ Connected) =>
    \A r \in Regs(srv) :
      /\ ReadIssued(r)
      /\ (CurRow.cols[r] # NULL) <=> ReadOk(r)

\* ------------------------------------------------------------------------
\* C3
\* ------------------------------------------------------------------------

\* C3: once the connection attempt to a server has failed and its handler
\* has run, no register read was issued for that server, every register
\* column of its record is null, the record's timestamp is set, and the
\* script is at the head of the server loop (or past its last server, or
\* was stopped there).
C3_ConnectionFailureSkipsServer ==
  (ConnectFailed /\ pc # "crashed") =>
    /\ TurnEnded \/ pc = "stopped"
    /\ EventsOf("read", {"ok"} \cup ReadFailures) = {}
    /\ EventsOf("patch", {"ok"}) = {}
    /\ \A r \in Regs(srv) : CurRow.cols[r] = NULL
    /\ CurRow.timestamp # NoTime

\* the first server of a run could not be reached and the loop is about to
\* take the second server
C3_Witness ==
  /\ ConnectFailed
  /\ pc = "for_server"
  /\ srv = 1
  /\ srv < Len(server_data)

\* ------------------------------------------------------------------------
\* C4
\* ------------------------------------------------------------------------

C7_WritesOnlyOwnRow ==
  [][ \A s \in Servers :
        /\ Len(tables'[s]) >= Len(tables[s])
        /\ \A i \in 1..Len(tables[s]) :
             tables'[s][i] # tables[s][i] =>
               /\ s = srv
               /\ i = Len(tables[s])
               /\ tables[s][i].id = row_id
               /\ EventsOf("insert", {"ok"}) # {}
               /\ tables'[s][i].id = tables[s][i].id ]_vars

\* in the second run the second server's row has been patched and stamped
\* while both tables hold an older row
C7_Witness ==
  /\ cycle = 2
  /\ srv = 2
  /\ EventsOf("patch", {"ok"}) # {}
  /\ TimestampWrites # {}
  /\ \A s \in Servers : Len(tables[s]) = 2

\* ------------------------------------------------------------------------
\* C8
\* ------------------------------------------------------------------------

\* C8: at the end of a server's turn, if the connection failed exactly one
\* line was printed, a connection error naming the server and no register;
\* otherwise there are as many error lines as failed reads, each failed
\* register has exactly one error line, of the kind of its failure and
\* naming the server and the register, and no value line, and each register
\* read successfully has exactly one value line and no error line.
C8_OneMessagePerFailure ==
  TurnEnded =>
    IF ConnectFailed
    THEN out = <<Line("connect_error", srv, 0, NULL)>>
    ELSE /\ Cardinality(ErrorLines) = Cardinality(EventsOf("read", ReadFailures))
         /\ \A i \in EventsOf("read", ReadFailures) :
              /\ Cardinality({ k \in ErrorLines : out[k].reg = events[i].reg }) = 1
              /\ \E k \in ErrorLines :
                   out[k] = Line(events[i].res, srv, events[i].reg, NULL)
              /\ \A k \in ValueLines : out[k].reg # events[i].reg
         /\ \A i \in EventsOf("read", {"ok"}) :
              /\ Cardinality({ k \in ValueLines :
                     out[k].reg = events[i].reg /\ out[k].server = srv }) = 1
              /\ \A k \in ErrorLines : out[k].reg # events[i].reg

\* a connected turn ended with a closed-connection failure, and a value
C8_Witness ==
  /\ TurnEnded
  /\ Connected
  /\ EventsOf("read", {"closed"}) # {}
  /\ EventsOf("read", {"ok"}) # {}

\* ------------------------------------------------------------------------
\* C9
\* ------------------------------------------------------------------------

\* C9: after a read that failed with a closed connection, the register's
\* column is null, no connection attempt follows in the turn, every later
\* read and the close use the Client object of the failed read, and once the
\* register loop is over every later register has been read, each failed
\* one with an error line of its own.
C9_ClosedReadContinues ==
  \A i \in EventsOf("read", {"closed"}) :
    /\ CurRow.cols[events[i].reg] = NULL
    /\ \A j \in 1..Len(events) :
         j > i => /\ events[j].op # "connect"
                  /\ events[j].op \in {"read", "close"} =>
                       events[j].client = events[i].client
    /\ pc \in {"timestamp", "close", "for_server", "done"} =>
         \A r \in Regs(srv) :
           r > events[i].reg =>
             /\ ReadIssued(r)
             /\ ReadFailed(r) => \E k \in ErrorLines : out[k].reg = r

\* the connection was closed while reading the first register; the second
\* register was read over the same Client and stored, and the turn ended
C9_Witness ==
  /\ TurnEnded
  /\ \E i \in EventsOf("read", {"closed"}) :
       /\ events[i].reg = 1
       /\ \E j \in EventsOf("read", {"ok"}) : j > i /\ events[j].reg = 2
  /\ CurRow.cols[2] # NULL

\* ------------------------------------------------------------------------
\* C10
\* ------------------------------------------------------------------------

\* the run ended with an exception of the decoder
DecoderFailed ==
  /\ events # <<>>
  /\ events[Len(events)].op = "decode"
  /\ events[Len(events)].res = "error"

\* a storage failure is the last operation of the run, and the run ends
\* abnormally only after a storage failure (or an exception of the decoder,
\* which is not a connection or register-read failure)
StorageFailureEndsRun ==
  /\ \A i \in 1..Len(events) :
       events[i].res = "dberror" => (pc = "crashed" /\ i = Len(events))
  /\ pc = "crashed" =>
       \/ events # <<>> /\ events[Len(events)].res = "dberror"
       \/ DecoderFailed

\* C10: a failure of a storage operation (insert, patch, timestamp) ends the
\* run at once: it is the last operation, nothing is read or written after
\* it and no step leaves the crashed run; connection and register failures
\* never end the run that way.
C10_PersistenceFailureIsFatal ==
  [][ pc # "crashed" /\ StorageFailureEndsRun' ]_vars

\* a value patch failed after an earlier register's read had failed and
\* been handled
C10_Witness ==
  /\ pc = "crashed"
  /\ events[Len(events)].op = "patch"
  /\ \E r \in Regs(srv) : ReadFailed(r)

\* ------------------------------------------------------------------------
\* C11
\* ------------------------------------------------------------------------

\* C11: every connection attempt of a turn comes after the insertion of the
\* turn's record, and when the script is about to connect, the row row_id
\* names exists in the server's table with a null timestamp and null values.
C11_RecordBeforeConnect ==
  /\ \A i \in EventsOf("connect", {"ok", "fail"}) :
       \E j \in EventsOf("insert", {"ok"}) : j < i
  /\ pc = "connect" =>
       /\ RowIndex(tables[srv], row_id) # 0
       /\ CurRow = [id |-> row_id] @@ null_tuple(srv)

\* the second run is about to connect to the second server
C11_Witness ==
  /\ pc = "connect"
  /\ cycle = 2
  /\ srv = 2
  /\ Len(tables[srv]) = 2

\* ------------------------------------------------------------------------
\* C12
\* ------------------------------------------------------------------------

\* the turn of the current server is over: its client was closed, or its
\* connection failed and the row was stamped
TurnOver ==
  /\ events # <<>>
  /\ LET last == events[Len(events)]
     IN  \/ last.op = "close"
         \/ last.op = "timestamp" /\ last.res = "ok" /\ ConnectFailed

\* C12: the loop variable `server` only moves from one server to the next
\* one of the list, and only when the turn of the previous one is over; no
\* server further down the list has a record of the current run; and the
\* k-th read of a turn is the read of the k-th register.
C12_SequentialOrder ==
  [][ /\ srv' # srv =>
           \/ pc = "for_server" /\ srv' = srv + 1 /\ (srv > 0 => TurnOver)
           \/ pc \in {"idle", "done"} /\ srv' = 0
      /\ \A s \in Servers : s > srv' => Len(tables'[s]) < cycle'
      /\ \A i \in 1..Len(events') :
           events'[i].op = "read" =>
             events'[i].reg =
               1 + Cardinality({ j \in 1..(i - 1) : events'[j].op = "read" }) ]_vars

\* the second register of the second server is about to be read, after the
\* first server's turn and the first register
C12_Witness ==
  /\ srv = 2
  /\ pc = "read"
  /\ reg = 2
  /\ ReadIssued(1)
  /\ Len(tables[1]) = cycle

\* ------------------------------------------------------------------------
\* C13
\* ------------------------------------------------------------------------

C14_WrongWordCountFails ==
  LET oks == EventsOf("read", {"ok"})
  IN  oks # {} =>
        LET r == events[CHOOSE i \in oks : \A j \in oks : j <= i].reg
        IN  Len(registers) # server_data[srv].registers[r].count =>
              /\ pc = "decode" \/ (pc = "crashed" /\ DecoderFailed)
              /\ \A i \in EventsOf("patch", {"ok"}) : events[i].reg # r
              /\ \A k \in ValueLines : out[k].reg # r
              /\ CurRow.cols[r] = NULL

\* ------------------------------------------------------------------------
\* C15
\* ------------------------------------------------------------------------

\* C15: right after a value patch, the column of the register holds
\* round3(conversion(decoded)) of the words just read, and that is the value
\* shown on the line printed for the register.
C15_StoredIsRoundedConverted ==
  (events # <<>> /\ events[Len(events)].op = "patch" /\ events[Len(events)].res = "ok") =>
    LET r == events[Len(events)].reg
        d == server_data[srv].registers[r]
    IN  /\ CurRow.cols[r] = round3(Convert(d.conv, Decode(d.dtype, registers)))
        /\ out # <<>>
        /\ out[Len(out)].kind = "value"
        /\ out[Len(out)].reg = r
        /\ out[Len(out)].value = CurRow.cols[r]

\* for every reading other than NaN, the column holds
\* round3(conversion(decoded)), a number of thousandths, and the printed
\* line shows it
StoredNumberIsRoundedConverted ==
  (events # <<>> /\ events[Len(events)].op = "patch" /\ events[Len(events)].res = "ok") =>
    LET r == events[Len(events)].reg
        d == server_data[srv].registers[r]
        v == round3(Convert(d.conv, Decode(d.dtype, registers)))
    IN  v.kind # "nan" =>
          /\ CurRow.cols[r] = v
          /\ out[Len(out)] = Line("value", srv, r, v)
          /\ v.kind = "num" => v.d = 1000

\* ------------------------------------------------------------------------
\* C16
\* ------------------------------------------------------------------------

\* the step makes a timestamp write
TimestampWritten ==
  /\ Len(events') > Len(events)
  /\ events'[Len(events')] = Ev("timestamp", 0, 0, "ok")

C17_StopLeavesNoNullTimestamp ==
  pc = "stopped" =>
    \A s \in Servers : \A i \in 1..Len(tables[s]) : tables[s][i].timestamp # NoTime

\* ------------------------------------------------------------------------
\* C18
\* ------------------------------------------------------------------------

\* a storage operation of the turn under way has failed
PersistenceFailed == \E i \in 1..Len(events) : events[i].res = "dberror"

\* the rows that have a null timestamp: <<server, position in its table>>
NullStamped ==
  { p \in Servers \X (1..MaxCycles + 1) :
      p[2] <= Len(tables[p[1]]) /\ tables[p[1]][p[2]].timestamp = NoTime }

StorageWrites ==
  { i \in 1..Len(events) : events[i].op \in {"insert", "patch", "timestamp"} }

\* the last storage write of the turn is a timestamp write, and it comes
\* after every read, decoding and value patch of the turn
LastWriteIsFinalStamp ==
  /\ TimestampWrites # {}
  /\ LET last == CHOOSE i \in TimestampWrites : \A j \in TimestampWrites : j <= i
     IN  /\ \A j \in StorageWrites : j <= last
         /\ \A j \in 1..Len(events) :
              events[j].op \in {"read", "decode", "patch"} => j < last
         /\ \A r \in Regs(srv) : \E j \in 1..(last - 1) :
              events[j].op = "read" /\ events[j].reg = r

JustRead(r) ==
  /\ events # <<>>
  /\ events[Len(events)] = Ev("read", r, client, "ok")

\* every value the current row holds was patched right after a successful
\* read of its register in the turn under way
ValuesReadThisTurn ==
  (srv > 0 /\ EventsOf("insert", {"ok"}) # {}) =>
    \A r \in Regs(srv) :
      CurRow.cols[r] # NULL =>
        \E i \in 1..(Len(events) - 1) :
          /\ events[i] = Ev("read", r, client, "ok")
          /\ events[i + 1] = Ev("patch", r, 0, "ok")

\* C20: the script decodes only right after a successful read of the
\* current register, which assigned the words it returned to `registers`;
\* a register column changes only in the row row_id names, only for the
\* current register and only to the value computed from those words; hence
\* every non-null value of the current row comes from a successful read of
\* its register in the turn under way.
C20_ValueFromOwnRead ==
  [][ /\ pc' = "decode" =>
           /\ JustRead(reg)'
           /\ registers' \in RawWords(server_data[srv'].registers[reg'].dtype)
      /\ \A s \in Servers : \A i \in 1..Len(tables'[s]) : \A r \in Regs(s) :
           tables'[s][i].cols[r] #
             (IF i <= Len(tables[s]) THEN tables[s][i].cols[r] ELSE NULL) =>
               /\ s = srv
               /\ r = reg
               /\ tables'[s][i].id = row_id
               /\ pc = "decode"
               /\ JustRead(r)
               /\ tables'[s][i].cols[r] = Stored(Value(s, r, registers))
      /\ ValuesReadThisTurn' ]_vars

\* in the second run, the second server's first read failed while
\* `registers` held the words of the first server's last register, and the
\* value of its second register has been stored
C20_Witness ==
  /\ cycle = 2
  /\ srv = 2
  /\ ReadFailed(1)
  /\ CurRow.cols[1] = NULL
  /\ CurRow.cols[2] # NULL
  /\ CurRow.cols[2] = Stored(Value(srv, 2, registers))
  /\ tables[1][2].cols[NRegs(1)] # NULL

====
